---- MODULE Spec2Model ----
(***************************************************************************)
(* CaskDB (node-caskdb): a single-file, log-structured key-value store.    *)
(*                                                                         *)
(* The model follows src/src/disk-store.ts (DiskStorage) and the format    *)
(* module reproduced in src/hints.md (encodeHeader, decodeHeader,          *)
(* encodeKV, decodeKV, HEADER_SIZE, KeyEntry).                             *)
(*                                                                         *)
(* The log file is a sequence of bytes (0..255).  JavaScript strings are   *)
(* sequences of UTF-16 code units; Buffer <-> string conversion is UTF-8.  *)
(* A JavaScript number that goes into a header field is a pair <<hi, lo>>  *)
(* of its value divided by 2^16 and the remainder, so that every value up  *)
(* to 2^32 and beyond is held exactly (TLC's integers end at 2^31 - 1).    *)
(* Buffer offsets are 0-based in the code and 1-based in TLA+ sequences;   *)
(* every operator below takes the code's 0-based offsets.                  *)
(*                                                                         *)
(* An async function runs atomically between two awaits, so every action   *)
(* is one such segment of set / get / close / DiskStorage().               *)
(***************************************************************************)
EXTENDS Integers, Sequences, FiniteSets, TLC

\* format.ts: export const HEADER_SIZE = 12
HEADER_SIZE == 12

\* Bounds of the model.
MaxRecords == 3
MaxInFlight == 2
MaxOpens == 1
MaxTruncations == 1
MaxMemOps == 3

\* Inputs: keys "a", "b"; values "" (tombstone), "x" (1 byte), U+00E9 (2 bytes).
Keys == { <<97>>, <<98>> }
Values == { <<>>, <<120>>, <<233>> }

\* timestamp(): seconds since the epoch; the clock may repeat or step back.
Timestamps == { << 0, 1 >>, << 0, 2 >> }

\* Header fields given to the format functions: 0, 1, 256, 65538, 2^31,
\* 2^32 - 1 and 2^32.
U32Inputs == { << 0, 0 >>, << 0, 1 >>, << 0, 256 >>, << 1, 2 >>, << 32768, 0 >>,
               << 65535, 65535 >>, << 65536, 0 >> }

\* Strings given to encodeKV: "", "a", U+00E9, and a high surrogate alone;
\* "", "x", U+20AC, U+1F600 (two code units), and a low surrogate alone.
CodecKeys == { << >>, << 97 >>, << 233 >>, << 55296 >> }
CodecValues == { << >>, << 120 >>, << 8364 >>, << 55357, 56832 >>, << 56320 >> }

\* Bytes cut off the end of a buffer given to decodeKV: the last byte of the
\* value, the payload and a byte of the header, the record and more.
CodecCuts == { 1, 8, 20 }

VARIABLES
    file,           \* bytes of the log file at `path`
    status,         \* "open" | "closed": the FileHandle _file of the instance
    keyDir,         \* _keyDir: key -> KeyEntry
    writePosition,  \* _writePosition
    calls,          \* set/get calls in flight, in order of invocation
    ret,            \* outcome of the call that settled in the last step
    log,            \* history: the records appended to the file, in order
    lastDone,       \* history: per key, value of the last undisturbed set
    opens,          \* history: number of re-opens of the file
    openLen,        \* history: file length when the instance was opened
    codec,          \* the format functions: input, buffer and decoded output
    memKeyDir,      \* MemoryStorage: keyDir, a Map<string, string>
    memOps,         \* history: the calls made on the MemoryStorage, in order
    cuts,           \* history: number of truncations of the file from outside
    scan            \* the loop of _initKeyDir, one iteration at a time

vars == << file, status, keyDir, writePosition, calls, ret, log, lastDone,
           opens, openLen, codec, memKeyDir, memOps, cuts, scan >>

\* the variables that no step of a DiskStorage touches
other == << codec, memKeyDir, memOps, cuts, scan >>

----------------------------------------------------------------------------
(* Buffers and UTF-8 *)

Min(a, b) == IF a < b THEN a ELSE b
Max(a, b) == IF a > b THEN a ELSE b

Zeros(n) == [i \in 1..n |-> 0]

\* buf.subarray(start, end) with Node's clamping of start and end
Slice(buf, start, end) ==
    LET e == Min(Max(end, 0), Len(buf))
        s == Min(Max(start, 0), e)
    IN  SubSeq(buf, s + 1, e)

\* UTF-8 bytes of one code point (Buffer.byteLength / buff.write)
Utf8Char(cp) ==
    IF cp < 128 THEN << cp >>
    ELSE IF cp < 2048 THEN << 192 + (cp \div 64), 128 + (cp % 64) >>
    ELSE IF cp < 65536
         THEN << 224 + (cp \div 4096), 128 + ((cp \div 64) % 64), 128 + (cp % 64) >>
         ELSE << 240 + (cp \div 262144), 128 + ((cp \div 4096) % 64),
                 128 + ((cp \div 64) % 64), 128 + (cp % 64) >>

\* UTF-16 code units: a high surrogate followed by a low one is one code
\* point; a surrogate without its partner is written as U+FFFD
HighSurrogate(u) == u \in 55296..56319
LowSurrogate(u) == u \in 56320..57343

RECURSIVE Utf8Bytes(_)
Utf8Bytes(str) ==
    IF str = << >> THEN << >>
    ELSE IF HighSurrogate(str[1]) /\ Len(str) >= 2 /\ LowSurrogate(str[2])
         THEN Utf8Char(65536 + (str[1] - 55296) * 1024 + (str[2] - 56320))
              \o Utf8Bytes(SubSeq(str, 3, Len(str)))
    ELSE IF HighSurrogate(str[1]) \/ LowSurrogate(str[1])
         THEN Utf8Char(65533) \o Utf8Bytes(Tail(str))
    ELSE Utf8Char(Head(str)) \o Utf8Bytes(Tail(str))

\* Buffer.byteLength(str)
byteLength(str) == Len(Utf8Bytes(str))

\* the code point of a well-formed sequence of n bytes at the head of b, or
\* -1 when the n bytes are not one
Utf8CodePoint(b, n) ==
    IF Len(b) < n \/ \E i \in 2..n : b[i] \notin 128..191 THEN -1
    ELSE IF n = 2 THEN (b[1] - 192) * 64 + (b[2] - 128)
    ELSE IF n = 3
         THEN LET cp == (b[1] - 224) * 4096 + (b[2] - 128) * 64 + (b[3] - 128)
              IN  IF cp < 2048 \/ cp \in 55296..57343 THEN -1 ELSE cp
    ELSE LET cp == (b[1] - 240) * 262144 + (b[2] - 128) * 4096
                     + (b[3] - 128) * 64 + (b[4] - 128)
         IN  IF cp < 65536 \/ cp > 1114111 THEN -1 ELSE cp

\* UTF-8 decoding with U+FFFD for every byte that starts no valid sequence;
\* a code point above U+FFFF becomes its two surrogates
RECURSIVE Utf8String(_)
Utf8String(b) ==
    IF b = << >> THEN << >>
    ELSE LET c == Head(b)
             n == IF c \in 194..223 THEN 2
                  ELSE IF c \in 224..239 THEN 3
                  ELSE IF c \in 240..244 THEN 4 ELSE 1
             cp == IF n = 1 THEN -1 ELSE Utf8CodePoint(b, n)
         IN  IF c < 128 THEN << c >> \o Utf8String(Tail(b))
             ELSE IF cp = -1 THEN << 65533 >> \o Utf8String(Tail(b))
             ELSE IF cp < 65536
                  THEN << cp >> \o Utf8String(SubSeq(b, n + 1, Len(b)))
             ELSE << 55296 + ((cp - 65536) \div 1024),
                     56320 + ((cp - 65536) % 1024) >>
                  \o Utf8String(SubSeq(b, n + 1, Len(b)))

\* buffer.toString("utf8", start, end)
toString(buf, start, end) == Utf8String(Slice(buf, start, end))

----------------------------------------------------------------------------
(* format.ts *)

\* the number n (0 <= n < 2^31) as a pair << hi, lo >>
Wide(n) == << n \div 65536, n % 65536 >>

\* the pair as an integer, for the arithmetic on sizes and offsets.  The
\* code's numbers are doubles and hold every 32-bit value; here a value of
\* 2^29 or more becomes 2^29, which is past the end of every buffer of the
\* model, so that it bounds a slice as the exact value does.
Narrow(w) == IF w[1] >= 8192 THEN 536870912 ELSE w[1] * 65536 + w[2]

\* a writeUInt32LE that takes every value and keeps its low 32 bits
writeUInt32LEWraps(value) == FALSE

\* buff.writeUInt32LE(value, offset) throws a RangeError (ERR_OUT_OF_RANGE)
\* when value > 2^32 - 1
writeUInt32LEThrows(value) == value[1] > 65535

\* the four bytes in the opposite order
writeUInt32BE(value) ==
    << value[1] \div 256, value[1] % 256, value[2] \div 256, value[2] % 256 >>

\* buff.writeUInt32LE(value, offset): the four bytes written
writeUInt32LE(value) ==
    << value[2] % 256, value[2] \div 256, value[1] % 256, value[1] \div 256 >>

\* buffer.readUInt32LE(offset)
readUInt32LE(buf, offset) ==
    << buf[offset + 3] + 256 * buf[offset + 4],
       buf[offset + 1] + 256 * buf[offset + 2] >>

\* encodeHeader throws when one of its three writes does
encodeHeaderThrows(timestamp, kSize, vSize) ==
    \/ writeUInt32LEThrows(timestamp)
    \/ writeUInt32LEThrows(kSize)
    \/ writeUInt32LEThrows(vSize)

encodeHeader(timestamp, kSize, vSize) ==
    writeUInt32LE(timestamp) \o writeUInt32LE(kSize) \o writeUInt32LE(vSize)

\* readUInt32LE throws a RangeError unless its four bytes are inside the
\* buffer: decodeHeader throws unless all twelve are
decodeHeaderThrows(buf, offset) == offset + HEADER_SIZE > Len(buf)

decodeHeader(buf, offset) ==
    << readUInt32LE(buf, offset),
       readUInt32LE(buf, offset + 4),
       readUInt32LE(buf, offset + 8) >>

\* encodeKV throws when encodeHeader does
encodeKVThrows(timestamp, key, value) ==
    encodeHeaderThrows(timestamp, Wide(byteLength(key)), Wide(byteLength(value)))

\* sizes from the string lengths instead of the byte lengths
encodeKVLength(timestamp, key, value) ==
    LET kSize == Len(key)
        vSize == Len(value)
        text == Utf8Bytes(key \o value)
    IN  encodeHeader(timestamp, Wide(kSize), Wide(vSize))
          \o Slice(text, 0, kSize + vSize)
          \o Zeros(kSize + vSize - Len(text))

\* buff.write(string, HEADER_SIZE) fills the zeroed buffer with the bytes of
\* the string that fit
encodeKV(timestamp, key, value) ==
    LET kSize == byteLength(key)
        vSize == byteLength(value)
        text == Utf8Bytes(key \o value)
    IN  encodeHeader(timestamp, Wide(kSize), Wide(vSize))
          \o Slice(text, 0, kSize + vSize)
          \o Zeros(kSize + vSize - Len(text))

\* key and value are sliced from HEADER_SIZE, whatever the offset
decodeKV(buff, offset) ==
    LET h == decodeHeader(buff, offset)
        kSize == Narrow(h[2])
        vSize == Narrow(h[3])
    IN  << h[1],
           toString(buff, HEADER_SIZE, HEADER_SIZE + kSize),
           toString(buff, HEADER_SIZE + kSize, HEADER_SIZE + kSize + vSize) >>

KeyEntry(timestamp, position, size) ==
    [timestamp |-> timestamp, position |-> position, size |-> size]

----------------------------------------------------------------------------
(* Map<string, KeyEntry> *)

EmptyMap == [x \in {} |-> KeyEntry(Wide(0), 0, 0)]
MapHas(m, k) == k \in DOMAIN m
MapSet(m, k, e) == [x \in DOMAIN m \cup {k} |-> IF x = k THEN e ELSE m[x]]
MapDelete(m, k) == [x \in DOMAIN m \ {k} |-> m[x]]

----------------------------------------------------------------------------
(* disk-store.ts: DiskStorage *)

\* a handle opened with "w+" instead: the file is emptied
OpenFileTruncate(f) == << >>

\* open(path, "a+"): the file is created if absent and keeps its bytes
OpenFile(f) == f

\* _file.write(data) on a handle opened with "a+": the bytes go to the end
AppendFile(f, data) == f \o data

\* buffer = Buffer.alloc(size); _file.read(buffer, 0, size, position)
ReadFile(f, size, position) ==
    LET got == Slice(f, position, position + size)
    IN  got \o Zeros(size - Len(got))

\* the size without the header
ScanEntryNoHeader(timestamp, offset, keySize, valueSize) ==
    [size |-> keySize + valueSize,
     position |-> offset,
     timestamp |-> timestamp]

\* the KeyEntry _initKeyDir builds for the record at `offset`
ScanEntry(timestamp, offset, keySize, valueSize) ==
    [size |-> HEADER_SIZE + keySize + valueSize,
     position |-> offset,
     timestamp |-> timestamp]

\* a loop that keeps the entry of the record with the greater timestamp
ScanStepNewest(kd, key, value, entry) ==
    IF value = << >> /\ MapHas(kd, key)
    THEN MapDelete(kd, key)
    ELSE IF /\ MapHas(kd, key)
            /\ \/ kd[key].timestamp[1] > entry.timestamp[1]
               \/ /\ kd[key].timestamp[1] = entry.timestamp[1]
                  /\ kd[key].timestamp[2] > entry.timestamp[2]
         THEN kd
         ELSE MapSet(kd, key, entry)

\* the loop without its tombstone branch
ScanStepKeep(kd, key, value, entry) == MapSet(kd, key, entry)

\* one iteration of the loop of _initKeyDir, after the record is decoded
ScanStep(kd, key, value, entry) ==
    IF value = << >> /\ MapHas(kd, key)
    THEN MapDelete(kd, key)
    ELSE MapSet(kd, key, entry)

\* an entry size that leaves out the header
EntrySizeNoHeader(keySize, valueSize) == keySize + valueSize

\* const entrySize = HEADER_SIZE + keySize + valueSize
EntrySize(keySize, valueSize) == HEADER_SIZE + keySize + valueSize

\* the body of the while loop, run once at `offset`; readUInt32LE throws a
\* RangeError when the twelve header bytes are not all inside the buffer
ScanOnce(buffer, offset, kd) ==
    IF decodeHeaderThrows(buffer, offset)
    THEN [threw |-> TRUE, offset |-> offset, keyDir |-> kd]
    ELSE LET h == decodeHeader(buffer, offset)
             keySize == Narrow(h[2])
             valueSize == Narrow(h[3])
             entrySize == EntrySize(keySize, valueSize)
             key == toString(buffer, offset + HEADER_SIZE,
                             offset + HEADER_SIZE + keySize)
             value == toString(buffer, offset + HEADER_SIZE + keySize,
                               offset + HEADER_SIZE + keySize + valueSize)
             entry == ScanEntry(h[1], offset, keySize, valueSize)
         IN  [threw |-> FALSE, offset |-> offset + entrySize,
              keyDir |-> ScanStep(kd, key, value, entry)]

\* while (offset < readResult.bytesRead) { ... }
RECURSIVE ScanLoop(_, _, _)
ScanLoop(buffer, offset, kd) ==
    IF offset >= Len(buffer) THEN [threw |-> FALSE, keyDir |-> kd]
    ELSE LET once == ScanOnce(buffer, offset, kd)
         IN  IF once.threw THEN [threw |-> TRUE, keyDir |-> kd]
             ELSE ScanLoop(buffer, once.offset, once.keyDir)

\* _initKeyDir on a new instance: the whole file is read and scanned
InitKeyDir(f) == ScanLoop(ReadFile(f, Len(f), 0), 0, EmptyMap)

\* the position the new KeyEntry of set gets
EntryPosition(wp, f, data) == wp

\* results of get
Absent == [kind |-> "undefined", value |-> << >>]
Value(v) == [kind |-> "value", value |-> v]

\* get, second half: read entry.size bytes at entry.position and decode;
\* the promise rejects when decodeKV throws
GetValue(f, entry) ==
    LET buffer == ReadFile(f, entry.size, entry.position)
    IN  IF decodeHeaderThrows(buffer, 0)
        THEN [kind |-> "error", value |-> << >>]
        ELSE Value(decodeKV(buffer, 0)[3])

\* a get that rejects for a key _keyDir does not hold
getMissThrows(key) == [kind |-> "error", value |-> << >>]

\* get, first half: `if (!entry) return undefined`
getMiss(key) == [kind |-> "undefined", value |-> << >>]

\* get run from lookup to return with nothing in between
getResult(kd, f, key) ==
    IF ~MapHas(kd, key) THEN getMiss(key) ELSE GetValue(f, kd[key])

----------------------------------------------------------------------------
(* calls in flight *)

NoEntry == KeyEntry(Wide(0), 0, 0)
NoRet == [op |-> "none", key |-> << >>, res |-> Absent]
Ret(op, key, res) == [op |-> op, key |-> key, res |-> res]
Ok == [kind |-> "ok", value |-> << >>]
Failed == [kind |-> "error", value |-> << >>]

SetCall(key, value, ts, solo) ==
    [op |-> "set", key |-> key, value |-> value, ts |-> ts,
     data |-> encodeKV(ts, key, value), pc |-> "write", solo |-> solo,
     entry |-> NoEntry]

GetCall(key, entry) ==
    [op |-> "get", key |-> key, value |-> << >>, ts |-> Wide(0),
     data |-> << >>, pc |-> "read", solo |-> FALSE, entry |-> entry]

Remove(s, i) == SubSeq(s, 1, i - 1) \o SubSeq(s, i + 1, Len(s))

SetsInFlight == { i \in 1..Len(calls) : calls[i].op = "set" }
SetsOf(key) == { i \in SetsInFlight : calls[i].key = key }

NoDone == [k \in Keys |-> << >>]

\* no format function has been called
NoCodec == [op |-> "none", in |-> << >>, pc |-> "idle", threw |-> FALSE,
            bytes |-> << >>, offset |-> 0, out |-> << >>]

\* no scan has been started
NoScan == [pc |-> "idle", buffer |-> << >>, offset |-> 0, keyDir |-> EmptyMap]

\* MemoryStorage: const keyDir = new Map<string, string>()
EmptyMemMap == [x \in {} |-> << >>]

----------------------------------------------------------------------------
(* state machine *)

\* const store = await DiskStorage(path) on a path with no file yet
Init ==
    /\ file = << >>
    /\ status = "open"
    /\ keyDir = EmptyMap
    /\ writePosition = 0
    /\ calls = << >>
    /\ ret = NoRet
    /\ log = << >>
    /\ lastDone = NoDone
    /\ opens = 0
    /\ openLen = 0
    /\ codec = NoCodec
    /\ memKeyDir = EmptyMemMap
    /\ memOps = << >>
    /\ cuts = 0
    /\ scan = NoScan

\* a set that puts its entry into _keyDir before the write
SetStartPublish(key, value, ts) ==
    /\ status = "open"
    /\ ~encodeKVThrows(ts, key, value)
    /\ Len(calls) < MaxInFlight
    /\ Len(log) + Cardinality(SetsInFlight) < MaxRecords
    /\ calls' = Append(calls, SetCall(key, value, ts, SetsOf(key) = {}))
    /\ keyDir' = MapSet(keyDir, key,
                        KeyEntry(ts, writePosition,
                                 Len(encodeKV(ts, key, value))))
    /\ lastDone' = [lastDone EXCEPT ![key] = << >>]
    /\ ret' = NoRet
    /\ UNCHANGED << other, file, status, writePosition, log, opens, openLen >>

\* set, up to `await _file.write(data)`
SetStart(key, value, ts) ==
    /\ status = "open"
    /\ ~encodeKVThrows(ts, key, value)
    /\ Len(calls) < MaxInFlight
    /\ Len(log) + Cardinality(SetsInFlight) < MaxRecords
    /\ calls' = Append([i \in 1..Len(calls) |->
                          IF calls[i].op = "set" /\ calls[i].key = key
                          THEN [calls[i] EXCEPT !.solo = FALSE]
                          ELSE calls[i]],
                       SetCall(key, value, ts, SetsOf(key) = {}))
    /\ lastDone' = [lastDone EXCEPT ![key] = << >>]
    /\ ret' = NoRet
    /\ UNCHANGED << other, file, status, keyDir, writePosition, log, opens,
                    openLen >>

\* set with `_keyDir.set(key, entry)` moved before `await _file.sync()`
SetWriteEager(i) ==
    /\ i \in 1..Len(calls)
    /\ calls[i].op = "set"
    /\ calls[i].pc = "write"
    /\ file' = AppendFile(file, calls[i].data)
    /\ log' = Append(log, [key |-> calls[i].key, value |-> calls[i].value,
                           ts |-> calls[i].ts, offset |-> Len(file),
                           size |-> Len(calls[i].data)])
    /\ keyDir' = MapSet(keyDir, calls[i].key,
                        KeyEntry(calls[i].ts, writePosition, Len(calls[i].data)))
    /\ calls' = [calls EXCEPT ![i].pc = "sync"]
    /\ ret' = NoRet
    /\ UNCHANGED << other, status, writePosition, lastDone, opens, openLen >>

\* the write of call i is carried out; set goes on to `await _file.sync()`
SetWrite(i) ==
    /\ i \in 1..Len(calls)
    /\ calls[i].op = "set"
    /\ calls[i].pc = "write"
    /\ file' = AppendFile(file, calls[i].data)
    /\ log' = Append(log, [key |-> calls[i].key, value |-> calls[i].value,
                           ts |-> calls[i].ts, offset |-> Len(file),
                           size |-> Len(calls[i].data)])
    /\ calls' = [calls EXCEPT ![i].pc = "sync"]
    /\ ret' = NoRet
    /\ UNCHANGED << other, status, keyDir, writePosition, lastDone, opens,
                    openLen >>

\* the sync of call i is done; set runs to its end
SetFinish(i) ==
    /\ i \in 1..Len(calls)
    /\ calls[i].op = "set"
    /\ calls[i].pc = "sync"
    /\ LET c == calls[i]
           entry == KeyEntry(c.ts, EntryPosition(writePosition, file, c.data),
                             Len(c.data))
       IN  /\ keyDir' = MapSet(keyDir, c.key, entry)
           /\ writePosition' = writePosition + Len(c.data)
           /\ lastDone' = [lastDone EXCEPT
                             ![c.key] = IF c.solo THEN << c.value >> ELSE << >>]
           /\ ret' = Ret("set", c.key, Ok)
    /\ calls' = Remove(calls, i)
    /\ UNCHANGED << other, file, status, log, opens, openLen >>

\* get of a key that _keyDir does not hold
GetMiss(key) ==
    /\ status = "open"
    /\ ~MapHas(keyDir, key)
    /\ ret' = Ret("get", key, getMiss(key))
    /\ UNCHANGED << other, file, status, keyDir, writePosition, calls, log,
                    lastDone, opens, openLen >>

\* get of a key that _keyDir holds, up to `await _file.read(...)`
GetStart(key) ==
    /\ status = "open"
    /\ Len(calls) < MaxInFlight
    /\ MapHas(keyDir, key)
    /\ calls' = Append(calls, GetCall(key, keyDir[key]))
    /\ ret' = NoRet
    /\ UNCHANGED << other, file, status, keyDir, writePosition, log, lastDone,
                    opens, openLen >>

\* a get whose read moves the write cursor behind the record it read
GetReadMoves(i) ==
    /\ i \in 1..Len(calls)
    /\ calls[i].op = "get"
    /\ ret' = Ret("get", calls[i].key, GetValue(file, calls[i].entry))
    /\ calls' = Remove(calls, i)
    /\ writePosition' = calls[i].entry.position + calls[i].entry.size
    /\ UNCHANGED << other, file, status, keyDir, log, lastDone, opens, openLen >>

\* the read of call i is done; get decodes and returns
GetRead(i) ==
    /\ i \in 1..Len(calls)
    /\ calls[i].op = "get"
    /\ ret' = Ret("get", calls[i].key, GetValue(file, calls[i].entry))
    /\ calls' = Remove(calls, i)
    /\ UNCHANGED << other, file, status, keyDir, writePosition, log, lastDone,
                    opens, openLen >>

\* close, with no call in flight
Close ==
    /\ status = "open"
    /\ calls = << >>
    /\ status' = "closed"
    /\ ret' = NoRet
    /\ UNCHANGED << other, file, keyDir, writePosition, calls, log, lastDone,
                    opens, openLen >>

\* store = await DiskStorage(path) on the same path: a new instance
Open ==
    /\ status = "closed"
    /\ opens < MaxOpens
    /\ ~InitKeyDir(OpenFile(file)).threw
    /\ file' = OpenFile(file)
    /\ keyDir' = InitKeyDir(OpenFile(file)).keyDir
    /\ writePosition' = 0
    /\ status' = "open"
    /\ calls' = << >>
    /\ ret' = NoRet
    /\ lastDone' = NoDone
    /\ opens' = opens + 1
    /\ openLen' = Len(OpenFile(file))
    /\ UNCHANGED << other, log >>

\* store = await DiskStorage(path) where _initKeyDir throws: the promise
\* rejects and the caller gets no instance
OpenFail ==
    /\ status = "closed"
    /\ opens < MaxOpens
    /\ InitKeyDir(OpenFile(file)).threw
    /\ ret' = Ret("open", << >>, Failed)
    /\ UNCHANGED << other, file, status, keyDir, writePosition, calls, log,
                    lastDone, opens, openLen >>

\* the write of call i fails: set rejects, nothing was appended
SetWriteFail(i) ==
    /\ i \in 1..Len(calls)
    /\ calls[i].op = "set"
    /\ calls[i].pc = "write"
    /\ ret' = Ret("set", calls[i].key, Failed)
    /\ calls' = Remove(calls, i)
    /\ UNCHANGED << other, file, status, keyDir, writePosition, log, lastDone,
                    opens, openLen >>

\* the sync of call i fails: set rejects after its record was appended
SetSyncFail(i) ==
    /\ i \in 1..Len(calls)
    /\ calls[i].op = "set"
    /\ calls[i].pc = "sync"
    /\ ret' = Ret("set", calls[i].key, Failed)
    /\ calls' = Remove(calls, i)
    /\ UNCHANGED << other, file, status, keyDir, writePosition, log, lastDone,
                    opens, openLen >>

\* set that fails after the key and the value went to the file
SetRejectLate(key, value, ts) ==
    /\ status = "open"
    /\ encodeKVThrows(ts, key, value)
    /\ file' = AppendFile(file, Utf8Bytes(key \o value))
    /\ ret' = Ret("set", key, Failed)
    /\ UNCHANGED << other, status, keyDir, writePosition, calls, log,
                    lastDone, opens, openLen >>

\* set whose encodeKV(ts, key, value) throws: the call rejects before its
\* first await
SetReject(key, value, ts) ==
    /\ status = "open"
    /\ encodeKVThrows(ts, key, value)
    /\ ret' = Ret("set", key, Failed)
    /\ UNCHANGED << other, file, status, keyDir, writePosition, calls, log,
                    lastDone, opens, openLen >>

\* another program cuts d bytes off the end of the file
Truncate(d) ==
    /\ status = "open"
    /\ cuts < MaxTruncations
    /\ file # << >>
    /\ file' = SubSeq(file, 1, Max(Len(file) - d, 0))
    /\ log' = SelectSeq(log, LAMBDA r : r.offset + r.size <= Len(file) - d)
    /\ cuts' = cuts + 1
    /\ ret' = NoRet
    /\ UNCHANGED << codec, memKeyDir, memOps, scan, status, keyDir,
                    writePosition, calls, lastDone, opens, openLen >>

\* set on an instance after its close(): _file.write rejects, the handle
\* is closed
SetClosed(key, value, ts) ==
    /\ status = "closed"
    /\ ~encodeKVThrows(ts, key, value)
    /\ ret' = Ret("set", key, Failed)
    /\ UNCHANGED << other, file, status, keyDir, writePosition, calls, log,
                    lastDone, opens, openLen >>

\* get on an instance after its close(), of a key that _keyDir does not
\* hold: the lookup needs no file
GetMissClosed(key) ==
    /\ status = "closed"
    /\ ~MapHas(keyDir, key)
    /\ ret' = Ret("get", key, getMiss(key))
    /\ UNCHANGED << other, file, status, keyDir, writePosition, calls, log,
                    lastDone, opens, openLen >>

\* get on an instance after its close(), of a key that _keyDir holds:
\* _file.read rejects
GetClosed(key) ==
    /\ status = "closed"
    /\ MapHas(keyDir, key)
    /\ ret' = Ret("get", key, Failed)
    /\ UNCHANGED << other, file, status, keyDir, writePosition, calls, log,
                    lastDone, opens, openLen >>

\* the caller awaits every call before it makes the next one
Await == calls = << >>

\* one caller that awaits each call (the tests, storeBook)
Next ==
    \/ \E key \in Keys, value \in Values, ts \in Timestamps :
           Await /\ SetStart(key, value, ts)
    \/ \E i \in 1..MaxInFlight : SetWrite(i)
    \/ \E i \in 1..MaxInFlight : SetFinish(i)
    \/ \E key \in Keys : Await /\ GetMiss(key)
    \/ \E key \in Keys : Await /\ GetStart(key)
    \/ \E i \in 1..MaxInFlight : GetRead(i)
    \/ Close
    \/ Open

Spec == Init /\ [][Next]_vars

\* the same caller, with writes and syncs that may fail; the clock stands
\* still, which no step of set depends on
NextFault ==
    \/ \E key \in Keys, value \in Values :
           Await /\ SetStart(key, value, Wide(1))
    \/ \E i \in 1..MaxInFlight : SetWrite(i)
    \/ \E i \in 1..MaxInFlight : SetFinish(i)
    \/ \E i \in 1..MaxInFlight : SetWriteFail(i)
    \/ \E i \in 1..MaxInFlight : SetSyncFail(i)
    \/ \E key \in Keys : Await /\ GetMiss(key)
    \/ \E key \in Keys : Await /\ GetStart(key)
    \/ \E i \in 1..MaxInFlight : GetRead(i)
    \/ Close
    \/ Open

SpecFault == Init /\ [][NextFault]_vars

\* the same caller, with a clock that reads 1 or 2^32 (7 February 2106)
RangeTimestamps == { << 0, 1 >>, << 65536, 0 >> }

NextRange ==
    \/ \E key \in Keys, value \in Values, ts \in RangeTimestamps :
           Await /\ SetStart(key, value, ts)
    \/ \E key \in Keys, value \in Values, ts \in RangeTimestamps :
           Await /\ SetReject(key, value, ts)
    \/ \E i \in 1..MaxInFlight : SetWrite(i)
    \/ \E i \in 1..MaxInFlight : SetFinish(i)
    \/ \E key \in Keys : Await /\ GetMiss(key)
    \/ \E key \in Keys : Await /\ GetStart(key)
    \/ \E i \in 1..MaxInFlight : GetRead(i)
    \/ Close
    \/ Open

SpecRange == Init /\ [][NextRange]_vars

\* a caller that awaits each call and goes on using an instance after its
\* close(); the clock stands still
NextClosed ==
    \/ \E key \in Keys, value \in Values :
           Await /\ SetStart(key, value, Wide(1))
    \/ \E i \in 1..MaxInFlight : SetWrite(i)
    \/ \E i \in 1..MaxInFlight : SetFinish(i)
    \/ \E key \in Keys : Await /\ GetMiss(key)
    \/ \E key \in Keys : Await /\ GetStart(key)
    \/ \E i \in 1..MaxInFlight : GetRead(i)
    \/ Close
    \/ \E key \in Keys, value \in Values : SetClosed(key, value, Wide(1))
    \/ \E key \in Keys : GetMissClosed(key)
    \/ \E key \in Keys : GetClosed(key)
    \/ Open

SpecClosed == Init /\ [][NextClosed]_vars

\* the same caller, on a file that another program may cut: the last byte of
\* a value, the end of a record from inside its header, or a whole record
\* and more; the clock stands still
CutSizes == { 1, 8, 15 }

NextTruncate ==
    \/ \E key \in Keys, value \in Values :
           Await /\ SetStart(key, value, Wide(1))
    \/ \E i \in 1..MaxInFlight : SetWrite(i)
    \/ \E i \in 1..MaxInFlight : SetFinish(i)
    \/ \E key \in Keys : Await /\ GetMiss(key)
    \/ \E key \in Keys : Await /\ GetStart(key)
    \/ \E i \in 1..MaxInFlight : GetRead(i)
    \/ \E d \in CutSizes : Truncate(d)
    \/ Close
    \/ Open
    \/ OpenFail

SpecTruncate == Init /\ [][NextTruncate]_vars

\* the values this caller sets: two texts whose records differ in length
GetsValues == {<<120>>, <<233>>}

\* a caller that awaits each set before the next set and does not await its
\* gets: gets overlap each other and the set in flight; the clock stands
\* still
NextGets ==
    \/ \E key \in Keys, value \in GetsValues :
           SetsInFlight = {} /\ SetStart(key, value, Wide(1))
    \/ \E i \in 1..MaxInFlight : SetWrite(i)
    \/ \E i \in 1..MaxInFlight : SetFinish(i)
    \/ \E key \in Keys : GetMiss(key)
    \/ \E key \in Keys : GetStart(key)
    \/ \E i \in 1..MaxInFlight : GetRead(i)
    \/ Close
    \/ Open

SpecGets == Init /\ [][NextGets]_vars

\* calls made without awaiting the ones before (storeDB)
NextAsync ==
    \/ \E key \in Keys, value \in Values, ts \in Timestamps :
           SetStart(key, value, ts)
    \/ \E i \in 1..MaxInFlight : SetWrite(i)
    \/ \E i \in 1..MaxInFlight : SetFinish(i)
    \/ \E key \in Keys : GetMiss(key)
    \/ \E key \in Keys : GetStart(key)
    \/ \E i \in 1..MaxInFlight : GetRead(i)
    \/ Close
    \/ Open

SpecAsync == Init /\ [][NextAsync]_vars

----------------------------------------------------------------------------
(* the format functions on their own (format.test.ts) *)

store == << file, status, keyDir, writePosition, calls, ret, log, lastDone,
            opens, openLen >>

\* encodeHeader(buffer, timestamp, kSize, vSize) on Buffer.alloc(HEADER_SIZE)
CodecEncodeHeader(timestamp, kSize, vSize) ==
    /\ codec' = IF encodeHeaderThrows(timestamp, kSize, vSize)
                THEN [op |-> "header", in |-> << timestamp, kSize, vSize >>,
                      pc |-> "idle", threw |-> TRUE, bytes |-> << >>,
                      offset |-> 0, out |-> << >>]
                ELSE [op |-> "header", in |-> << timestamp, kSize, vSize >>,
                      pc |-> "encoded", threw |-> FALSE,
                      bytes |-> encodeHeader(timestamp, kSize, vSize),
                      offset |-> 0, out |-> << >>]
    /\ UNCHANGED << store, memKeyDir, memOps, cuts, scan >>

\* const [t, k, v] = decodeHeader(buffer)
CodecDecodeHeader ==
    /\ codec.op = "header"
    /\ codec.pc = "encoded"
    /\ codec' = [codec EXCEPT !.pc = "decoded",
                              !.out = decodeHeader(codec.bytes, 0)]
    /\ UNCHANGED << store, memKeyDir, memOps, cuts, scan >>

\* const data = encodeKV(timestamp, key, value)
CodecEncodeKV(timestamp, key, value) ==
    /\ codec' = IF encodeKVThrows(timestamp, key, value)
                THEN [op |-> "kv", in |-> << timestamp, key, value >>,
                      pc |-> "idle", threw |-> TRUE, bytes |-> << >>,
                      offset |-> 0, out |-> << >>]
                ELSE [op |-> "kv", in |-> << timestamp, key, value >>,
                      pc |-> "encoded", threw |-> FALSE,
                      bytes |-> encodeKV(timestamp, key, value),
                      offset |-> 0, out |-> << >>]
    /\ UNCHANGED << store, memKeyDir, memOps, cuts, scan >>

\* const [t, k, v] = decodeKV(data)
CodecDecodeKV ==
    /\ codec.op = "kv"
    /\ codec.pc = "encoded"
    /\ codec' = [codec EXCEPT !.pc = "decoded",
                              !.out = decodeKV(codec.bytes, 0)]
    /\ UNCHANGED << store, memKeyDir, memOps, cuts, scan >>

\* the records that stand before the record to decode, in one buffer:
\* none, ("a", "x"), or ("a", "x") and ("b", U+00E9)
CodecPrefixes ==
    { << >>,
      encodeKV(Wide(1), << 97 >>, << 120 >>),
      encodeKV(Wide(1), << 97 >>, << 120 >>)
        \o encodeKV(Wide(2), << 98 >>, << 233 >>) }

\* decodeKV throws when decodeHeader does
decodeKVThrows(buff, offset) == decodeHeaderThrows(buff, offset)

\* a buffer of records back to back, the last one encodeKV(timestamp, key,
\* value); codec.in is that record and it starts at Len(prefix)
CodecEncodeAt(prefix, timestamp, key, value) ==
    /\ ~encodeKVThrows(timestamp, key, value)
    /\ codec' = [op |-> "kvAt", in |-> << timestamp, key, value >>,
                 pc |-> "encoded", threw |-> FALSE,
                 bytes |-> prefix \o encodeKV(timestamp, key, value),
                 offset |-> Len(prefix), out |-> << >>]
    /\ UNCHANGED << store, memKeyDir, memOps, cuts, scan >>

\* the buffer loses its last d bytes
CodecCut(d) ==
    /\ codec.op = "kvAt"
    /\ codec.pc = "encoded"
    /\ Len(codec.bytes) = codec.offset + Len(encodeKV(codec.in[1], codec.in[2],
                                                      codec.in[3]))
    /\ codec' = [codec EXCEPT
                    !.bytes = SubSeq(codec.bytes, 1, Max(Len(codec.bytes) - d, 0))]
    /\ UNCHANGED << store, memKeyDir, memOps, cuts, scan >>

\* decodeKV(buff, offset) with offset at the start of the last record
CodecDecodeAt ==
    /\ codec.op = "kvAt"
    /\ codec.pc = "encoded"
    /\ codec' = IF decodeKVThrows(codec.bytes, codec.offset)
                THEN [codec EXCEPT !.pc = "decoded", !.threw = TRUE]
                ELSE [codec EXCEPT !.pc = "decoded",
                                   !.out = decodeKV(codec.bytes, codec.offset)]
    /\ UNCHANGED << store, memKeyDir, memOps, cuts, scan >>

NextCodec ==
    \/ \E timestamp \in U32Inputs, kSize \in U32Inputs, vSize \in U32Inputs :
           CodecEncodeHeader(timestamp, kSize, vSize)
    \/ CodecDecodeHeader
    \/ \E timestamp \in U32Inputs, key \in CodecKeys, value \in CodecValues :
           CodecEncodeKV(timestamp, key, value)
    \/ CodecDecodeKV
    \/ \E prefix \in CodecPrefixes, timestamp \in U32Inputs,
          key \in CodecKeys, value \in CodecValues :
           CodecEncodeAt(prefix, timestamp, key, value)
    \/ \E d \in CodecCuts : CodecCut(d)
    \/ CodecDecodeAt

SpecCodec == Init /\ [][NextCodec]_vars

----------------------------------------------------------------------------
(* disk-store.ts: _initKeyDir, iteration by iteration *)

\* Files given to the scan: logs of up to two records, whole or with bytes
\* missing at the end, 24 zero bytes, and 13 bytes 0xff.
ScanRecords == { encodeKV(Wide(1), key, value) : key \in Keys, value \in Values }
ScanLogs ==
    {<< >>} \cup ScanRecords \cup { a \o b : a \in ScanRecords, b \in ScanRecords }
ScanFiles ==
    { SubSeq(l, 1, Max(Len(l) - d, 0)) : l \in ScanLogs, d \in {0} \cup CutSizes }
      \cup { Zeros(2 * HEADER_SIZE), [i \in 1..(HEADER_SIZE + 1) |-> 255] }

\* _initKeyDir up to the loop: the file is read; an empty file needs no scan
ScanBegin(f) ==
    /\ scan.pc # "loop"
    /\ scan' = [pc |-> IF Len(f) = 0 THEN "done" ELSE "loop",
                buffer |-> ReadFile(f, Len(f), 0), offset |-> 0,
                keyDir |-> EmptyMap]
    /\ UNCHANGED << store, codec, memKeyDir, memOps, cuts >>

\* one iteration of the loop
ScanIterate ==
    /\ scan.pc = "loop"
    /\ scan.offset < Len(scan.buffer)
    /\ LET once == ScanOnce(scan.buffer, scan.offset, scan.keyDir)
       IN  scan' = IF once.threw THEN [scan EXCEPT !.pc = "threw"]
                   ELSE [scan EXCEPT !.offset = once.offset,
                                     !.keyDir = once.keyDir]
    /\ UNCHANGED << store, codec, memKeyDir, memOps, cuts >>

\* the loop condition fails: _initKeyDir returns
ScanEnd ==
    /\ scan.pc = "loop"
    /\ scan.offset >= Len(scan.buffer)
    /\ scan' = [scan EXCEPT !.pc = "done"]
    /\ UNCHANGED << store, codec, memKeyDir, memOps, cuts >>

NextScan ==
    \/ \E f \in ScanFiles : ScanBegin(f)
    \/ ScanIterate
    \/ ScanEnd

\* the loop is synchronous code: once entered it runs on
SpecScan ==
    Init /\ [][NextScan]_vars /\ WF_vars(ScanIterate) /\ WF_vars(ScanEnd)

----------------------------------------------------------------------------
(* disk-store.ts: MemoryStorage *)

\* keyDir.get(key)
memGet(kd, key) == IF MapHas(kd, key) THEN Value(kd[key]) ELSE Absent

\* a close that leaves the map as it is
memClearNone(kd) == kd

\* keyDir.clear()
memClear(kd) == EmptyMemMap

MemOp(op, key, value) == [op |-> op, key |-> key, value |-> value]

\* set(key, value): the executor of the promise runs at once
MemSet(key, value) ==
    /\ Len(memOps) < MaxMemOps
    /\ memKeyDir' = MapSet(memKeyDir, key, value)
    /\ memOps' = Append(memOps, MemOp("set", key, value))
    /\ ret' = Ret("set", key, Ok)
    /\ UNCHANGED << file, status, keyDir, writePosition, calls, log, lastDone,
                    opens, openLen, codec, cuts, scan >>

\* get(key)
MemGet(key) ==
    /\ ret' = Ret("get", key, memGet(memKeyDir, key))
    /\ UNCHANGED << file, status, keyDir, writePosition, calls, log, lastDone,
                    opens, openLen, codec, memKeyDir, memOps, cuts, scan >>

\* close()
MemClose ==
    /\ Len(memOps) < MaxMemOps
    /\ memKeyDir' = memClear(memKeyDir)
    /\ memOps' = Append(memOps, MemOp("close", << >>, << >>))
    /\ ret' = Ret("close", << >>, Ok)
    /\ UNCHANGED << file, status, keyDir, writePosition, calls, log, lastDone,
                    opens, openLen, codec, cuts, scan >>

NextMemory ==
    \/ \E key \in Keys, value \in Values : MemSet(key, value)
    \/ \E key \in Keys : MemGet(key)
    \/ MemClose

SpecMemory == Init /\ [][NextMemory]_vars

----------------------------------------------------------------------------
(* Properties *)

\* the records of `key` in the log, oldest first
KeyRecs(key) == SelectSeq(log, LAMBDA r : r.key = key)
HasRec(key) == KeyRecs(key) # << >>
LastRec(key) == KeyRecs(key)[Len(KeyRecs(key))]
PrevRec(key) == KeyRecs(key)[Len(KeyRecs(key)) - 1]

\* the latest record of `key` holds a value
Live(key) == HasRec(key) /\ LastRec(key).value # << >>

\* the latest two records of `key` are a value and then a tombstone
PutThenDeleted(key) ==
    /\ Len(KeyRecs(key)) >= 2
    /\ LastRec(key).value = << >>
    /\ PrevRec(key).value # << >>

\* what get(key) returns when it is called now and nothing else runs
GetNow(key) == getResult(keyDir, file, key)

\* an open store with no call in progress
Quiet == status = "open" /\ calls = << >>

\* a store re-opened on the file, with no set made on the new instance yet
JustReopened ==
    /\ status = "open"
    /\ opens >= 1
    /\ Len(file) = openLen
    /\ SetsInFlight = {}

IsPrefix(s, t) == Len(s) <= Len(t) /\ SubSeq(t, 1, Len(s)) = s

\* C1. Put-then-get: in any open session, on a file that was empty or held
\* records at open, once set(k, v) with non-empty v has completed and no later
\* set for k was issued, get(k) returns exactly v.
C1_PutThenGet ==
    \A k \in Keys :
        (status = "open" /\ lastDone[k] # << >> /\ lastDone[k][1] # << >>)
            => GetNow(k) = Value(lastDone[k][1])

\* C2. Delete within a session: after set(k, v) with non-empty v followed by
\* set(k, "") in the same session, get(k) returns undefined.
C2_DeleteInSession ==
    \A k \in Keys :
        (/\ status = "open"
         /\ lastDone[k] = << << >> >>
         /\ PutThenDeleted(k)
         /\ PrevRec(k).offset >= openLen)
            => GetNow(k) = Absent

\* C3. Delete across reopen: after set(k, v) with non-empty v, then set(k, ""),
\* then close and reopen, get(k) returns undefined, and every other key whose
\* latest record has a non-empty value still returns that value.
C3_DeleteAcrossReopen ==
    JustReopened =>
        \A k \in Keys :
            PutThenDeleted(k) =>
                /\ GetNow(k) = Absent
                /\ \A k2 \in Keys \ {k} :
                       Live(k2) => GetNow(k2) = Value(LastRec(k2).value)

\* C3 witness: after a reopen, get of a deleted key has just returned
\* undefined while the other key is live.
C3_Witness ==
    /\ JustReopened
    /\ \E k \in Keys :
           /\ PutThenDeleted(k)
           /\ ret = Ret("get", k, Absent)
           /\ \E k2 \in Keys \ {k} : Live(k2)

\* C4. Overwrite ordering: after sequential set(k, v1) then set(k, v2) in one
\* session, with non-empty v1 # v2 of any lengths, get(k) returns v2.
C4_OverwriteOrdering ==
    \A k \in Keys :
        (/\ status = "open"
         /\ Len(KeyRecs(k)) >= 2
         /\ PrevRec(k).offset >= openLen
         /\ PrevRec(k).value # << >>
         /\ LastRec(k).value # << >>
         /\ PrevRec(k).value # LastRec(k).value
         /\ lastDone[k] = << LastRec(k).value >>)
            => GetNow(k) = Value(LastRec(k).value)

\* C5. Persistence: after writing key/value pairs with non-empty values (some
\* keys deleted afterwards), closing and reopening the file, get returns the
\* written value for every key that was not deleted.
C5_Persistence ==
    JustReopened =>
        \A k \in Keys : Live(k) => GetNow(k) = Value(LastRec(k).value)

\* C5 witness: after a reopen of a file that holds a live key and a deleted
\* key, get of the live key has just returned its value.
C5_Witness ==
    /\ JustReopened
    /\ \E k \in Keys :
           /\ Live(k)
           /\ ret = Ret("get", k, Value(LastRec(k).value))
           /\ \E k2 \in Keys \ {k} : PutThenDeleted(k2)

C7_KeyDirInvariant ==
    Quiet => \A k \in Keys : MapHas(keyDir, k) <=> Live(k)

\* C8. Write cursor invariant: outside of a write in progress, write_position
\* equals the length of the log file.
C8_WriteCursor ==
    Quiet => writePosition = Len(file)

\* the bytes the format gives the record (timestamp, key, value)
RecordBytes(ts, key, value) ==
    writeUInt32LE(ts) \o writeUInt32LE(Wide(Len(Utf8Bytes(key))))
      \o writeUInt32LE(Wide(Len(Utf8Bytes(value))))
      \o Utf8Bytes(key) \o Utf8Bytes(value)

\* a step that changes the file is the append of one whole record of a set
C9_Append ==
    file' # file =>
        \E i \in 1..Len(calls) :
            /\ calls[i].op = "set"
            /\ calls[i].pc = "write"
            /\ calls' = [calls EXCEPT ![i].pc = "sync"]
            /\ file' = file \o RecordBytes(calls[i].ts, calls[i].key, calls[i].value)
            /\ Len(file') = Len(file) + 12 + Len(Utf8Bytes(calls[i].key))
                              + Len(Utf8Bytes(calls[i].value))

\* a set completes only after its one append, and appends nothing more
C9_Complete ==
    (ret'.op = "set" /\ ret'.res = Ok) =>
        \E i \in 1..Len(calls) :
            /\ calls[i].op = "set"
            /\ calls[i].pc = "sync"
            /\ calls[i].key = ret'.key
            /\ calls' = Remove(calls, i)
            /\ file' = file

\* C9. Append-only log: every completed set(k, v) extends the log by exactly
\* one record of 12 + len(k) + len(v) bytes, and no step of set, get, close or
\* open, in any session, modifies, reorders or truncates bytes of the log.
C9_AppendOnly ==
    [][IsPrefix(file, file') /\ C9_Append /\ C9_Complete]_vars

\* C9 witness: a set has completed on a re-opened file that held records.
C9_Witness ==
    /\ opens >= 1
    /\ openLen > 0
    /\ Len(file) > openLen
    /\ ret.op = "set"
    /\ ret.res = Ok

\* the KeyDir changes, within one instance, only when a set whose record was
\* appended gets its sync done, and then only at that set's key
C10_Update ==
    (keyDir' # keyDir /\ status = "open" /\ status' = "open") =>
        \E i \in 1..Len(calls) :
            /\ calls[i].op = "set"
            /\ calls[i].pc = "sync"
            /\ \E j \in 1..Len(log) :
                   /\ log[j].key = calls[i].key
                   /\ log[j].value = calls[i].value
                   /\ log[j].ts = calls[i].ts
            /\ calls' = Remove(calls, i)
            /\ ret' = Ret("set", calls[i].key, Ok)
            /\ \A k \in DOMAIN keyDir \ {calls[i].key} :
                   MapHas(keyDir', k) /\ keyDir'[k] = keyDir[k]

\* a set that fails reports the error and leaves KeyDir and cursor alone
C10_Failure ==
    (ret'.op = "set" /\ ret'.res = Failed) =>
        /\ keyDir' = keyDir
        /\ writePosition' = writePosition

\* every KeyDir entry was made for a record that is in the file
C10_Recoverable ==
    status = "open" =>
        \A k \in DOMAIN keyDir :
            \E j \in 1..Len(log) :
                /\ log[j].key = k
                /\ log[j].ts = keyDir[k].timestamp
                /\ log[j].size = keyDir[k].size

\* C10. Durability before visibility: set writes the KeyDir entry only after
\* the append and the sync have both succeeded; when the append or the sync
\* fails the error reaches the caller and the KeyDir is unchanged.
C10_DurabilityBeforeVisibility ==
    /\ []C10_Recoverable
    /\ [][C10_Update /\ C10_Failure]_vars

\* C10 witness: a set has failed at its sync, after its record was appended,
\* and the KeyDir does not hold its key.
C10_Witness ==
    /\ ret.op = "set"
    /\ ret.res = Failed
    /\ HasRec(ret.key)
    /\ ~MapHas(keyDir, ret.key)

\* a number of 0..2^32-1
InRange(w) == w[1] \in 0..65535 /\ w[2] \in 0..65535

\* byte i (0 the lowest) of the binary form of the number
ByteOf(w, i) ==
    LET half == IF i < 2 THEN w[2] ELSE w[1]
    IN  IF i % 2 = 0 THEN half % 256 ELSE (half \div 256) % 256

\* no surrogate of the string stands without its partner
RECURSIVE WellFormed(_)
WellFormed(str) ==
    IF str = << >> THEN TRUE
    ELSE IF HighSurrogate(str[1])
         THEN /\ Len(str) >= 2
              /\ LowSurrogate(str[2])
              /\ WellFormed(SubSeq(str, 3, Len(str)))
    ELSE ~LowSurrogate(str[1]) /\ WellFormed(Tail(str))

\* C11 as stated. Record round-trip: for every timestamp in 0..2^32-1 and
\* every key and value string, decodeKV(encodeKV(timestamp, key, value))
\* returns (timestamp, key, value), and the buffer has length
\* 12 + byteLength(key) + byteLength(value).
C11_Original ==
    (codec.op = "kv" /\ InRange(codec.in[1])) =>
        /\ ~codec.threw
        /\ Len(codec.bytes) = 12 + byteLength(codec.in[2]) + byteLength(codec.in[3])
        /\ codec.pc = "decoded" => codec.out = codec.in

\* C11. Record round-trip: for every timestamp in 0..2^32-1 and every key and
\* value without an unpaired surrogate, decodeKV(encodeKV(timestamp, key,
\* value)) returns (timestamp, key, value); for every key and value string
\* the buffer has length 12 + byteLength(key) + byteLength(value).
C11_RecordRoundTrip ==
    (codec.op = "kv" /\ InRange(codec.in[1])) =>
        /\ ~codec.threw
        /\ Len(codec.bytes) = 12 + byteLength(codec.in[2]) + byteLength(codec.in[3])
        /\ (/\ codec.pc = "decoded"
            /\ WellFormed(codec.in[2])
            /\ WellFormed(codec.in[3])) => codec.out = codec.in

\* C11 witness: the record (2^32 - 1, U+00E9, U+1F600) came back from decodeKV.
C11_Witness ==
    /\ codec.op = "kv"
    /\ codec.pc = "decoded"
    /\ codec.in = << << 65535, 65535 >>, << 233 >>, << 55357, 56832 >> >>
    /\ codec.out = codec.in
    /\ Len(codec.bytes) = 18

\* C12. Header round-trip: for all (t, ks, vs) in 0..2^32-1, decodeHeader of
\* the 12 bytes of encodeHeader returns (t, ks, vs), and the bytes are the
\* three numbers as unsigned 32-bit little-endian at offsets 0, 4 and 8, in
\* the order timestamp, key size, value size.
C12_HeaderRoundTrip ==
    (/\ codec.op = "header"
     /\ \A f \in 1..3 : InRange(codec.in[f])) =>
        /\ codec.pc \in {"encoded", "decoded"}
        /\ Len(codec.bytes) = 12
        /\ \A f \in 1..3 : \A i \in 0..3 :
               codec.bytes[4 * (f - 1) + i + 1] = ByteOf(codec.in[f], i)
        /\ codec.pc = "decoded" => codec.out = codec.in

\* C12 witness: the header (65538, 2^32 - 1, 256) came back from decodeHeader.
C12_Witness ==
    /\ codec.op = "header"
    /\ codec.pc = "decoded"
    /\ codec.in = << << 1, 2 >>, << 65535, 65535 >>, << 0, 256 >> >>
    /\ codec.out = codec.in
    /\ codec.bytes = << 2, 0, 1, 0, 255, 255, 255, 255, 0, 1, 0, 0 >>

\* C13. 32-bit boundary: encoding a header whose timestamp, key size or value
\* size is 2^32 fails with an error and yields no wrapped bytes; with every
\* field at most 2^32 - 1 it succeeds.
C13_Boundary ==
    /\ codec.op = "header" =>
           (codec.threw <=> \E f \in 1..3 : codec.in[f] = << 65536, 0 >>)
    /\ codec.op = "kv" => (codec.threw <=> codec.in[1] = << 65536, 0 >>)
    /\ (codec.op \in {"header", "kv"} /\ codec.threw) =>
           codec.bytes = << >> /\ codec.pc = "idle"

\* C13 witness: encodeHeader(2^32 - 1, 2^32 - 1, 2^32) threw.
C13_Witness ==
    /\ codec.op = "header"
    /\ codec.threw
    /\ codec.in = << << 65535, 65535 >>, << 65535, 65535 >>, << 65536, 0 >> >>

\* the bytes of the records of a log, in order
RECURSIVE LogBytes(_)
LogBytes(l) ==
    IF l = << >> THEN << >>
    ELSE RecordBytes(l[1].ts, l[1].key, l[1].value) \o LogBytes(Tail(l))

\* a set that fails changes nothing of the store
C14_Untouched ==
    (ret'.op = "set" /\ ret'.res = Failed) =>
        /\ file' = file
        /\ log' = log
        /\ keyDir' = keyDir
        /\ writePosition' = writePosition
        /\ calls' = calls
        /\ status' = status

\* C14. Encoding errors precede I/O: when set(k, v) fails because a header
\* field is out of the 32-bit range, no byte is appended and the log, the
\* KeyDir and write_position are unchanged; the file holds the records of
\* the sets that went through and nothing else, so that a following valid
\* set behaves as if the failed call had not happened.
C14_EncodingErrorsPrecedeIO ==
    /\ [](file = LogBytes(log))
    /\ [][C14_Untouched]_vars

\* C14 witness: a set was rejected for its timestamp on a store that holds
\* its key, in a session with a set before it.
C14_Witness ==
    /\ ret.op = "set"
    /\ ret.res = Failed
    /\ MapHas(keyDir, ret.key)
    /\ writePosition > 0

\* C15. Short read on get: if the KeyDir holds an entry for k and the file
\* no longer supplies entry.size bytes at entry.position (it was truncated
\* from outside), get(k) fails with an error; it returns neither "not
\* found" nor a partial or empty value.
C15_ShortRead ==
    /\ \A k \in DOMAIN keyDir :
           (status = "open" /\ keyDir[k].position + keyDir[k].size > Len(file))
               => GetNow(k) = Failed
    /\ \A i \in 1..Len(calls) :
           (/\ calls[i].op = "get"
            /\ calls[i].entry.position + calls[i].entry.size > Len(file))
               => GetValue(file, calls[i].entry) = Failed

\* no step on a closed instance changes the file or the KeyDir
C16_NoEffect ==
    (status = "closed" /\ status' = "closed") =>
        /\ file' = file
        /\ keyDir' = keyDir
        /\ writePosition' = writePosition

\* C16. Lifecycle: an instance goes Unopened -> Open -> Closed, with the
\* recovery run once at open, and Closed is terminal: after close() has
\* completed no set appends a record or changes the KeyDir, and no get, of
\* a present or of an absent key, returns a result from that instance.
C16_Lifecycle ==
    /\ []((status = "closed" /\ ret.op \in {"set", "get"}) => ret.res = Failed)
    /\ [][C16_NoEffect]_vars

\* the calls made on the MemoryStorage since its last close()
MemSince ==
    LET closes == { i \in 1..Len(memOps) : memOps[i].op = "close" }
        last == IF closes = {} THEN 0
                ELSE CHOOSE i \in closes : \A j \in closes : j <= i
    IN  SubSeq(memOps, last + 1, Len(memOps))

\* what get(key) is to return: the value of the most recent set(key, v)
\* since the last close(), undefined when there was none
MemExpected(key) ==
    LET sets == SelectSeq(MemSince, LAMBDA o : o.op = "set" /\ o.key = key)
    IN  IF sets = << >> THEN Absent ELSE Value(sets[Len(sets)].value)

\* C17. MemoryStorage: after any sequence of set calls, get(k) returns the
\* value of the most recent set(k, v), and undefined for a key that was
\* never set or after close() cleared the map.
C17_MemoryStorage ==
    /\ \A k \in Keys : memGet(memKeyDir, k) = MemExpected(k)
    /\ ret.op = "get" => ret.res = MemExpected(ret.key)

\* C17 witness: get returned undefined for a key that was set to "x" before
\* a close().
C17_Witness ==
    /\ ret.op = "get"
    /\ ret.res = Absent
    /\ Len(memOps) >= 1
    /\ memOps[1] = MemOp("set", ret.key, << 120 >>)
    /\ \E i \in 1..Len(memOps) : memOps[i].op = "close"

\* the entry is the place of the latest record of the key, inside the file
Located(k, e) ==
    /\ HasRec(k)
    /\ e.position + e.size <= Len(file)
    /\ e.position = LastRec(k).offset
    /\ e.size = HEADER_SIZE + byteLength(k) + byteLength(LastRec(k).value)
    /\ decodeKV(Slice(file, e.position, e.position + e.size), 0)[2] = k

\* C18. KeyEntry location: in every reachable state of an open store with
\* no put in progress, each KeyDir entry e for key k has e.position + e.size
\* within the file, e.position at the header of the most recent record for
\* k, e.size = 12 + key_size + value_size of that record, and the bytes at
\* [e.position, e.position + e.size) decode to a record with key k; also
\* for the entries made by set in a session opened on a non-empty file.
C18_KeyEntryLocation ==
    Quiet => \A k \in DOMAIN keyDir : Located(k, keyDir[k])

\* C19. Recovery is last-writer-wins by offset: open scans the records in
\* increasing offset order from 0, and for every key whose last record in
\* the file has a non-empty value the rebuilt KeyEntry has the offset of
\* that record as position, 12 + key_size + value_size as size and that
\* record's timestamp, whatever timestamp the earlier records carry.
C19_RecoveryLastWriterWins ==
    JustReopened =>
        \A k \in Keys :
            Live(k) =>
                /\ MapHas(keyDir, k)
                /\ keyDir[k].position = LastRec(k).offset
                /\ keyDir[k].size = HEADER_SIZE + byteLength(k)
                                       + byteLength(LastRec(k).value)
                /\ keyDir[k].timestamp = LastRec(k).ts

\* C19 witness: after a reopen the KeyDir holds the last record of a key
\* whose record before it carries a greater timestamp.
C19_Witness ==
    /\ JustReopened
    /\ \E k \in Keys :
           /\ Len(KeyRecs(k)) >= 2
           /\ Live(k)
           /\ PrevRec(k).ts = << 0, 2 >>
           /\ LastRec(k).ts = << 0, 1 >>
           /\ MapHas(keyDir, k)
           /\ keyDir[k].position = LastRec(k).offset
           /\ keyDir[k].position > 0

\* C20. Recovery tombstones: in the scan a record with value_size = 0
\* removes its key from the KeyDir if present and never inserts an entry;
\* after open on any log, also one where a tombstone is the first record of
\* its key or where two tombstones follow each other, no KeyDir entry points
\* at a tombstone record and get of such a key returns undefined.
C20_RecoveryTombstones ==
    JustReopened =>
        \A k \in Keys :
            (HasRec(k) /\ LastRec(k).value = << >>) =>
                /\ ~MapHas(keyDir, k)
                /\ GetNow(k) = Absent

\* the buffer holds the whole of the record codec.in from codec.offset on
CodecWhole ==
    Len(codec.bytes) >= codec.offset + HEADER_SIZE + byteLength(codec.in[2])
                          + byteLength(codec.in[3])

\* C21. Decode at an offset: for a buffer of encoded records back to back,
\* decodeKV(buffer, offset) with offset at the start of the i-th record
\* returns the timestamp, key and value of that record, the key being the
\* key_size bytes from offset + 12 and the value the next value_size bytes,
\* for every offset, also offset > 0.
C21_DecodeAtOffset ==
    (/\ codec.op = "kvAt"
     /\ codec.pc = "decoded"
     /\ CodecWhole
     /\ WellFormed(codec.in[2])
     /\ WellFormed(codec.in[3])) =>
        /\ ~codec.threw
        /\ codec.out = codec.in

\* C22. Truncated decode: decodeKV on a buffer that ends before
\* 12 + key_size + value_size bytes past the record start (the header short,
\* or the header whole and the payload short) fails with an error; it never
\* returns a shortened key or value.
C22_TruncatedDecode ==
    (codec.op = "kvAt" /\ codec.pc = "decoded" /\ ~CodecWhole) => codec.threw

\* the file is whole records followed by the first bytes of one more
PartialTail ==
    /\ IsPrefix(LogBytes(log), file)
    /\ Len(file) > Len(LogBytes(log))

\* C23. Recovery with a partial final record: when the log ends in a record
\* that is not fully present (fewer than 12 header bytes, or fewer payload
\* bytes than the header declares), open succeeds, the scan stops at the
\* last fully decodable record boundary, and the KeyDir holds entries only
\* for records that lie entirely within the file.
C23_PartialFinalRecord ==
    PartialTail =>
        /\ ret # Ret("open", << >>, Failed)
        /\ JustReopened =>
               \A k \in DOMAIN keyDir :
                   /\ keyDir[k].position + keyDir[k].size <= Len(file)
                   /\ HasRec(k)
                   /\ keyDir[k].position = LastRec(k).offset

\* the KeyDir that _initKeyDir rebuilds from the file as it is now
Replayed == InitKeyDir(OpenFile(file))

\* C24. Memory state equals replayed state: at any point of an open session
\* with no put in progress, for every key get(k) returns what it would
\* return after close and reopen of the same file, the KeyDir kept by set
\* being the mapping that recovery rebuilds from the log; for any sequence
\* of sets, tombstones and overwrites included, and for sessions opened on
\* non-empty files.
C24_MemoryEqualsReplay ==
    Quiet =>
        /\ ~Replayed.threw
        /\ \A k \in Keys : GetNow(k) = getResult(Replayed.keyDir, file, k)
        /\ keyDir = Replayed.keyDir

\* the entry of key k is the place of a record that a set of k appended
OwnRecord(k, e) ==
    \E j \in 1..Len(log) :
        /\ log[j].key = k
        /\ log[j].offset = e.position
        /\ log[j].size = e.size
        /\ log[j].ts = e.timestamp

\* C25. Mutual exclusion of puts: the encode, append and flush, KeyDir update
\* and cursor advance of one set are not interleaved with the append or the
\* KeyDir update of another; when two sets are in flight at once, each
\* KeyEntry still has the position at which that call's own record was
\* appended, and write_position ends equal to the file length.  Stated for
\* the session on a new file, once no call is in flight.
C25_MutualExclusion ==
    (Quiet /\ opens = 0) =>
        /\ writePosition = Len(file)
        /\ \A k \in DOMAIN keyDir : OwnRecord(k, keyDir[k])

\* the get calls in flight
Gets(c) == SelectSeq(c, LAMBDA x : x.op = "get")

\* a step of a get: a get is invoked, or one returns
GetStep == Gets(calls') # Gets(calls) \/ ret'.op = "get"

\* a get that returns gives what a get run alone at that moment gives,
\* unless a set replaced the entry while the get was in flight
C26_AsAlone ==
    \A i \in 1..Len(calls) :
        (/\ calls[i].op = "get"
         /\ calls' = Remove(calls, i)
         /\ ret'.op = "get"
         /\ MapHas(keyDir, calls[i].key)
         /\ keyDir[calls[i].key] = calls[i].entry)
            => ret'.res = GetNow(calls[i].key)

\* C26. get is read-only: a get(k), of a present or an absent key, leaves
\* the log bytes, the KeyDir and write_position unchanged, so that gets
\* interleaved with each other return what they return run one after
\* another.
C26_GetReadOnly ==
    [][/\ GetStep => /\ file' = file
                     /\ keyDir' = keyDir
                     /\ writePosition' = writePosition
                     /\ log' = log
       /\ C26_AsAlone]_vars

\* C26 witness: a get has returned a value while another get is in flight.
C26_Witness ==
    /\ ret.op = "get"
    /\ ret.res.kind = "value"
    /\ \E i \in 1..Len(calls) : calls[i].op = "get"

\* the values of the sets of key k, the one in flight last
SetValues(k) ==
    LET recs == KeyRecs(k)
        waiting == SelectSeq(calls, LAMBDA c : /\ c.op = "set"
                                               /\ c.key = k
                                               /\ c.pc = "write")
    IN  [i \in 1..Len(recs) |-> recs[i].value]
          \o [i \in 1..Len(waiting) |-> waiting[i].value]

\* C28. No torn read: in a session opened on an empty file, a get(k) that
\* overlaps a single in-flight set(k, v2) issued after a completed
\* set(k, v1) returns either v1 or v2 in full, never a mix, a partial value
\* or undefined: the KeyDir entry is switched only after the new record is
\* appended and flushed.  Stated for a key with these two sets and no other.
C28_NoTornRead ==
    (/\ opens = 0
     /\ ret.op = "get"
     /\ Len(SetValues(ret.key)) = 2) =>
        \/ ret.res = Value(SetValues(ret.key)[1])
        \/ ret.res = Value(SetValues(ret.key)[2])

\* C28 witness: get(k) has returned v1 while the record of set(k, v2) is in
\* the file and the set awaits its sync.
C28_Witness ==
    /\ opens = 0
    /\ ret.op = "get"
    /\ Len(SetValues(ret.key)) = 2
    /\ SetValues(ret.key)[1] = << 233 >>
    /\ SetValues(ret.key)[2] = << 120 >>
    /\ ret.res = Value(<< 233 >>)
    /\ \E i \in 1..Len(calls) :
           /\ calls[i].op = "set"
           /\ calls[i].key = ret.key
           /\ calls[i].pc = "sync"

\* an iteration that goes on moves the offset at least 12 bytes forward
C27_Advance ==
    (scan.pc = "loop" /\ scan'.pc = "loop" /\ scan'.buffer = scan.buffer) =>
        \/ scan'.offset >= scan.offset + 12
        \/ scan' = scan

\* C27. Recovery terminates: for every finite log file the scan at open
\* finishes, by completing or by raising an error: each iteration moves the
\* offset forward by entry_size = 12 + key_size + value_size >= 12, and the
\* loop ends once the offset reaches the number of bytes read.
C27_RecoveryTerminates ==
    /\ (scan.pc = "loop") ~> (scan.pc \in {"done", "threw"})
    /\ [][C27_Advance]_vars
    /\ [](scan.pc = "done" => scan.offset >= Len(scan.buffer))

\* C27 witness: the scan of a file of two records has completed.
C27_Witness ==
    /\ scan.pc = "done"
    /\ Len(scan.buffer) >= 2 * (HEADER_SIZE + 1)
    /\ scan.offset = Len(scan.buffer)
    /\ Cardinality(DOMAIN scan.keyDir) = 2

====
